---- MODULE Spec2Model ----
(***************************************************************************)
(* The LiquidGlass displacement-map engine (updateShader) and the part of  *)
(* the hosting component that decides when it runs.                        *)
(*                                                                         *)
(* Numbers.  The source computes in IEEE-754 binary floating point         *)
(* (JavaScript numbers, and a Float32Array for the raw field).  A number   *)
(* of the model is a pair <<m, e>> standing for m * 2^e, with m = 0 or     *)
(* 2^(p-1) <= |m| < 2^p; every arithmetic operation rounds its exact       *)
(* result to the nearest such number, ties to even, as the source's        *)
(* operations do.  The significand is DoubleBits wide for a JavaScript     *)
(* number and SingleBits wide for a Float32Array element; both are         *)
(* narrower than the source's 53 and 24 bits so that exact intermediate    *)
(* results fit integers of 32 bits.                                        *)
(***************************************************************************)
EXTENDS Integers, Sequences, FiniteSets, TLC

\* Significand width of a JavaScript number in the model.
DoubleBits == 12

\* Significand width of a Float32Array element in the model.
SingleBits == 9

Zero == <<0, 0>>

AbsInt(n) == IF n < 0 THEN 0 - n ELSE n

SignInt(n) == IF n < 0 THEN 0 - 1 ELSE IF n > 0 THEN 1 ELSE 0

BitLen4(n) == IF n < 4 THEN (IF n < 2 THEN n ELSE 2) ELSE (IF n < 8 THEN 3 ELSE 4)

BitLen8(n) == IF n < 16 THEN BitLen4(n) ELSE 4 + BitLen4(n \div 16)

\* Number of binary digits of n >= 0 (0 for 0).
BitLen(n) ==
    IF n < 65536
    THEN (IF n < 256 THEN BitLen8(n) ELSE 8 + BitLen8(n \div 256))
    ELSE (IF n < 16777216 THEN 16 + BitLen8(n \div 65536)
                          ELSE 24 + BitLen8(n \div 16777216))

\* n * 2^e rounded to p significant bits, to nearest, ties to even.
RoundTo(n, e, p) ==
    IF n = 0 THEN Zero
    ELSE LET a == AbsInt(n)
             s == SignInt(n)
             len == BitLen(a)
         IN  IF len <= p
             THEN <<s * a * 2^(p - len), e - (p - len)>>
             ELSE LET sh == len - p
                      q == a \div 2^sh
                      r == a % 2^sh
                      half == 2^(sh - 1)
                      q1 == IF r > half \/ (r = half /\ q % 2 = 1) THEN q + 1 ELSE q
                  IN  IF q1 = 2^p THEN <<s * 2^(p - 1), e + sh + 1>>
                                  ELSE <<s * q1, e + sh>>

FromInt(n) == RoundTo(n, 0, DoubleBits)

FNeg(a) == <<0 - a[1], a[2]>>

FAbs(a) == <<AbsInt(a[1]), a[2]>>

FAdd(a, b) ==
    IF a[1] = 0 THEN b
    ELSE IF b[1] = 0 THEN a
    ELSE LET hi == IF a[2] >= b[2] THEN a ELSE b
             lo == IF a[2] >= b[2] THEN b ELSE a
             d == hi[2] - lo[2]
         IN  IF d > DoubleBits + 2 THEN hi
             ELSE RoundTo(hi[1] * 2^d + lo[1], lo[2], DoubleBits)

FSub(a, b) == FAdd(a, FNeg(b))

FMul(a, b) == RoundTo(a[1] * b[1], a[2] + b[2], DoubleBits)

\* a / b for b # 0; the last bit of the widened quotient is the sticky bit.
FDiv(a, b) ==
    IF a[1] = 0 THEN Zero
    ELSE LET n == AbsInt(a[1]) * 2^(DoubleBits + 2)
             den == AbsInt(b[1])
             q == n \div den
             st == IF n % den = 0 THEN 0 ELSE 1
         IN  RoundTo(SignInt(a[1]) * SignInt(b[1]) * (2 * q + st),
                     a[2] - b[2] - (DoubleBits + 3), DoubleBits)

\* a < b
FLt(a, b) ==
    IF a[1] < 0
    THEN b[1] >= 0 \/ a[2] > b[2] \/ (a[2] = b[2] /\ a[1] < b[1])
    ELSE IF a[1] = 0 THEN b[1] > 0
    ELSE b[1] > 0 /\ (a[2] < b[2] \/ (a[2] = b[2] /\ a[1] < b[1]))

FLe(a, b) == ~FLt(b, a)

FMax(a, b) == IF FLt(a, b) THEN b ELSE a

FMin(a, b) == IF FLt(b, a) THEN b ELSE a

\* The decimal literal num/den of the source, as the nearest number.
Lit(num, den) == FDiv(FromInt(num), FromInt(den))

One == FromInt(1)

Half == Lit(1, 2)

\* One binary digit of the square root of n: s is <<res, bit>>.
ISqrtStep(n, s) ==
    IF s[2] = 0 THEN s
    ELSE <<IF s[1] + s[2] <= n \div (s[1] + s[2]) THEN s[1] + s[2] ELSE s[1],
           s[2] \div 2>>

\* Largest t with t * t <= n, one binary digit at a time from bit down to 1,
\* two digits in a call.
RECURSIVE ISqrtFrom(_, _)
ISqrtFrom(n, s) ==
    IF s[2] = 0 THEN s[1] ELSE ISqrtFrom(n, ISqrtStep(n, ISqrtStep(n, s)))

ISqrt(n) == ISqrtFrom(n, <<0, 32768>>)

\* Math.sqrt(a) for a >= 0, correctly rounded.
FSqrt(a) ==
    IF a[1] = 0 THEN Zero
    ELSE LET k == IF (a[2] - (DoubleBits + 2)) % 2 = 0 THEN DoubleBits + 2
                                                      ELSE DoubleBits + 3
             n == a[1] * 2^k
             q == ISqrt(n)
             st == IF q * q = n THEN 0 ELSE 1
         IN  RoundTo(2 * q + st, ((a[2] - k) \div 2) - 1, DoubleBits)

\* Math.floor(a) as an integer.
FFloor(a) ==
    IF a[2] >= 0 THEN a[1] * 2^a[2]
    ELSE IF 0 - a[2] > 30 THEN (IF a[1] < 0 THEN 0 - 1 ELSE 0)
    ELSE a[1] \div 2^(0 - a[2])

\* A store into a Float32Array element: the value narrowed to a single.
ToSingle(a) ==
    LET s == RoundTo(a[1], a[2], SingleBits)
    IN  RoundTo(s[1], s[2], DoubleBits)

\* A store into a Uint8ClampedArray element: clamped to 0..255 and rounded
\* to the nearest integer, ties to even.
ToUint8Clamped(a) ==
    IF a[1] <= 0 THEN 0
    ELSE IF FLe(FromInt(255), a) THEN 255
    ELSE IF a[2] >= 0 THEN a[1] * 2^a[2]
    ELSE IF 0 - a[2] > 30 THEN 0
    ELSE LET sh == 0 - a[2]
             q == a[1] \div 2^sh
             r == a[1] % 2^sh
             half == 2^(sh - 1)
         IN  IF r > half \/ (r = half /\ q % 2 = 1) THEN q + 1 ELSE q

(***************************************************************************)
(* Math.atan2, Math.sin and Math.cos.  The language leaves their results   *)
(* implementation-approximated; here they are computed by CORDIC rotations *)
(* over integers scaled by 2^16, and the result is rounded to a number.    *)
(* The exact cases of Math.atan2 on the axes are kept.                     *)
(***************************************************************************)
AtanTable == <<51472, 30386, 16055, 8150, 4091, 2047, 1024, 512,
               256, 128, 64, 32, 16, 8, 4, 2>>

PiFix == 205887

TwoPiFix == 411775

HalfPiFix == 102944

CordicGain == 636751

\* a number as an integer scaled by 2^16 (rounded down).
ToFix(a) ==
    LET sh == a[2] + 16
    IN  IF sh >= 0 THEN a[1] * 2^sh
        ELSE IF 0 - sh > 30 THEN (IF a[1] < 0 THEN 0 - 1 ELSE 0)
        ELSE a[1] \div 2^(0 - sh)

FromFix(n) == RoundTo(n, 0 - 16, DoubleBits)

\* One rotation of the vectoring mode, which drives y to 0 and accumulates
\* the angle in z: v is <<x, y, z, i>>.
CordicVecStep(v) ==
    IF v[4] > Len(AtanTable) THEN v
    ELSE IF v[2] > 0
    THEN <<v[1] + v[2] \div 2^(v[4] - 1), v[2] - v[1] \div 2^(v[4] - 1),
           v[3] + AtanTable[v[4]], v[4] + 1>>
    ELSE <<v[1] - v[2] \div 2^(v[4] - 1), v[2] + v[1] \div 2^(v[4] - 1),
           v[3] - AtanTable[v[4]], v[4] + 1>>

\* Vectoring mode from v = <<x, y, z, i>>, two rotations in a call; returns z.
RECURSIVE CordicVec(_)
CordicVec(v) ==
    IF v[4] > Len(AtanTable) THEN v[3] ELSE CordicVec(CordicVecStep(CordicVecStep(v)))

\* One rotation of the rotation mode, which drives z to 0: v is <<x, y, z, i>>.
CordicRotStep(v) ==
    IF v[4] > Len(AtanTable) THEN v
    ELSE IF v[3] >= 0
    THEN <<v[1] - v[2] \div 2^(v[4] - 1), v[2] + v[1] \div 2^(v[4] - 1),
           v[3] - AtanTable[v[4]], v[4] + 1>>
    ELSE <<v[1] + v[2] \div 2^(v[4] - 1), v[2] - v[1] \div 2^(v[4] - 1),
           v[3] + AtanTable[v[4]], v[4] + 1>>

\* Rotation mode from v = <<x, y, z, i>>, two rotations in a call; returns
\* <<cos, sin>> scaled by 2^20.
RECURSIVE CordicRot(_)
CordicRot(v) ==
    IF v[4] > Len(AtanTable) THEN <<v[1], v[2]>>
    ELSE CordicRot(CordicRotStep(CordicRotStep(v)))

\* Math.atan2(y, x)
FAtan2(y, x) ==
    IF y[1] = 0 THEN (IF x[1] < 0 THEN FromFix(PiFix) ELSE Zero)
    ELSE IF x[1] = 0 THEN (IF y[1] < 0 THEN FromFix(0 - HalfPiFix) ELSE FromFix(HalfPiFix))
    ELSE LET top == IF x[2] >= y[2] THEN x[2] ELSE y[2]
             up == 2^(20 - DoubleBits)
             dx == top - x[2]
             dy == top - y[2]
             xi == IF dx > 30 THEN (IF x[1] < 0 THEN 0 - 1 ELSE 0) ELSE (x[1] * up) \div 2^dx
             yi == IF dy > 30 THEN (IF y[1] < 0 THEN 0 - 1 ELSE 0) ELSE (y[1] * up) \div 2^dy
         IN  IF xi >= 0 THEN FromFix(CordicVec(<<xi, yi, 0, 1>>))
             ELSE IF yi >= 0 THEN FromFix(CordicVec(<<0 - xi, 0 - yi, 0, 1>>) + PiFix)
             ELSE FromFix(CordicVec(<<0 - xi, 0 - yi, 0, 1>>) - PiFix)

\* <<cos a, sin a>> scaled by 2^20, after reduction of a to [-pi/2, pi/2].
CosSinFix(a) ==
    LET r == ToFix(a) % TwoPiFix
    IN  IF r <= HalfPiFix THEN CordicRot(<<CordicGain, 0, r, 1>>)
        ELSE IF r <= PiFix + HalfPiFix
             THEN LET cs == CordicRot(<<CordicGain, 0, r - PiFix, 1>>)
                  IN  <<0 - cs[1], 0 - cs[2]>>
        ELSE CordicRot(<<CordicGain, 0, r - TwoPiFix, 1>>)

\* Math.cos(a)
FCos(a) == IF a[1] = 0 THEN One ELSE RoundTo(CosSinFix(a)[1], 0 - 20, DoubleBits)

\* Math.sin(a)
FSin(a) == IF a[1] = 0 THEN Zero ELSE RoundTo(CosSinFix(a)[2], 0 - 20, DoubleBits)

\* Math.PI
FPi == FromFix(PiFix)

(***************************************************************************)
(* The literals of updateShader.                                           *)
(***************************************************************************)
Two == FromInt(2)

Three == FromInt(3)

Ten == FromInt(10)

Hundred == FromInt(100)

F255 == FromInt(255)

F0_8 == Lit(8, 10)

F0_6 == Lit(6, 10)

F0_4 == Lit(4, 10)

F0_3 == Lit(3, 10)

F0_1 == Lit(1, 10)

F0_05 == Lit(5, 100)

F0_01 == Lit(1, 100)

Corners == {"top-left", "top-right", "bottom-right", "bottom-left"}

\* The cubic of smoothStep without the clamp of t to [0, 1].
smoothStepUnclamped(a, b, t) ==
    CHOOSE r \in {FMul(FMul(t1, t1), FSub(Three, FMul(Two, t1))) :
                     t1 \in {FDiv(FSub(t, a), FSub(b, a))}} : TRUE

\* smoothStep(a, b, t)
smoothStep(a, b, t) ==
    CHOOSE r \in {FMul(FMul(t1, t1), FSub(Three, FMul(Two, t1))) :
                     t1 \in {FMax(Zero, FMin(One, FDiv(FSub(t, a), FSub(b, a))))}} : TRUE

\* w and h of updateShader: the canvas size in device pixels.
DeviceSize(cssSize, dpi) ==
    LET f == FFloor(FMul(FromInt(cssSize), dpi))
    IN  IF f > 1 THEN f ELSE 1

\* The threshold with the branch of large surfaces taken for every surface.
ThresholdOfLarge(w, h, dpi, edgeThicknessPx) ==
    LET minDimension == FromInt(IF w < h THEN w ELSE h)
        maxPossibleDistance == FDiv(minDimension, Two)
    IN  FMax(FMin(FMin(FMin(FMul(edgeThicknessPx, dpi), FMul(minDimension, F0_4)),
                       maxPossibleDistance), maxPossibleDistance), One)

\* The adaptive falloff threshold of updateShader.
Threshold(w, h, dpi, edgeThicknessPx) ==
    LET minDimension == FromInt(IF w < h THEN w ELSE h)
        maxPossibleDistance == FDiv(minDimension, Two)
        adaptiveThreshold ==
            IF FLt(minDimension, FromInt(60))
            THEN FMin(FMul(minDimension, F0_8), maxPossibleDistance)
            ELSE IF FLt(minDimension, Hundred)
            THEN FMin(FMul(minDimension, F0_6), maxPossibleDistance)
            ELSE FMin(FMin(FMul(edgeThicknessPx, dpi), FMul(minDimension, F0_4)),
                      maxPossibleDistance)
    IN  FMax(FMin(adaptiveThreshold, maxPossibleDistance), One)

\* A floor of swirlScale ten times lower.
SwirlScaleClampedLow(swirlScale) == FMax(swirlScale, F0_01)

\* swirlScaleClamped
SwirlScaleClamped(swirlScale) == FMax(swirlScale, F0_1)

\* swirlRadiusClamped
SwirlRadiusClamped(swirlRadius) == FMax(swirlRadius, F0_1)

\* The values updateShader computes once, before its pixel loop.
Hoisted(in) ==
    LET w == DeviceSize(in.width, in.dpi)
        h == DeviceSize(in.height, in.dpi)
        minDimension == FromInt(IF w < h THEN w ELSE h)
        baseDisplacementFactor ==
            FMax(FMul(FDiv(minDimension, Hundred), F0_05), F0_01)
    IN  [w |-> w,
         h |-> h,
         containerW |-> FromInt(w),
         containerH |-> FromInt(h),
         halfW |-> FDiv(FromInt(w), Two),
         halfH |-> FDiv(FromInt(h), Two),
         maxRadius |-> FSqrt(FAdd(FMul(Half, Half), FMul(Half, Half))),
         threshold |-> Threshold(w, h, in.dpi, in.edgeThicknessPx),
         displacementFactor |->
             FMul(baseDisplacementFactor, FDiv(in.swirlIntensity, Ten)),
         swirlScaleClamped |-> SwirlScaleClamped(in.swirlScale),
         swirlRadiusClamped |-> SwirlRadiusClamped(in.swirlRadius),
         swirlIntensityFactor |-> FDiv(in.swirlIntensity, Ten),
         twoPi |-> FMul(FPi, Two),
         isSwirlEdgesArray |-> in.swirlEdges[1] = "arr",
         isSwirlEdgesAll |-> in.swirlEdges[1] = "str" /\ in.swirlEdges[2] = "all"]

\* Whether a pixel of the given halves lies in the region a corner names.
InCorner(edge, isLeftHalf, isRightHalf, isTopHalf, isBottomHalf) ==
    IF edge = "top-left" THEN isLeftHalf /\ isTopHalf
    ELSE IF edge = "top-right" THEN isRightHalf /\ isTopHalf
    ELSE IF edge = "bottom-right" THEN isRightHalf /\ isBottomHalf
    ELSE IF edge = "bottom-left" THEN isLeftHalf /\ isBottomHalf
    ELSE FALSE

\* A region test that reads only the first element of an array.
IsInSwirlRegionFirst(x, y, in, hz) ==
    LET pxX == FAdd(FromInt(x), Half)
        pxY == FAdd(FromInt(y), Half)
        isTopHalf == FLt(pxY, hz.halfH)
        isBottomHalf == FLe(hz.halfH, pxY)
        isLeftHalf == FLt(pxX, hz.halfW)
        isRightHalf == FLe(hz.halfW, pxX)
    IN  IF hz.isSwirlEdgesAll THEN TRUE
        ELSE IF hz.isSwirlEdgesArray
        THEN /\ Len(in.swirlEdges[2]) > 0
             /\ InCorner(in.swirlEdges[2][1], isLeftHalf, isRightHalf,
                         isTopHalf, isBottomHalf)
        ELSE IF in.swirlEdges[2] \in Corners
        THEN InCorner(in.swirlEdges[2], isLeftHalf, isRightHalf,
                      isTopHalf, isBottomHalf)
        ELSE TRUE

\* isInSwirlRegion of pixel (x, y)
IsInSwirlRegion(x, y, in, hz) ==
    LET pxX == FAdd(FromInt(x), Half)
        pxY == FAdd(FromInt(y), Half)
        isTopHalf == FLt(pxY, hz.halfH)
        isBottomHalf == FLe(hz.halfH, pxY)
        isLeftHalf == FLt(pxX, hz.halfW)
        isRightHalf == FLe(hz.halfW, pxX)
    IN  IF hz.isSwirlEdgesAll THEN TRUE
        ELSE IF hz.isSwirlEdgesArray
        THEN \E i \in 1..Len(in.swirlEdges[2]) :
                 InCorner(in.swirlEdges[2][i], isLeftHalf, isRightHalf,
                          isTopHalf, isBottomHalf)
        ELSE IF in.swirlEdges[2] \in Corners
        THEN InCorner(in.swirlEdges[2], isLeftHalf, isRightHalf,
                      isTopHalf, isBottomHalf)
        ELSE TRUE

\* The falloff of one edge at the adjusted distance d.
EdgeInfluence(d, minThreshold) ==
    IF FLe(Zero, d) THEN smoothStep(minThreshold, Zero, d) ELSE Zero

\* A minimum threshold of 3 pixels.
MinThresholdOfThree(hz) == FMax(hz.threshold, Three)

\* minThreshold of updateShader
MinThreshold(hz) == FMax(hz.threshold, Two)

\* maxEdgeInfluence of pixel (x, y)
MaxEdgeInfluence(x, y, in, hz) ==
    LET pxX == FAdd(FromInt(x), Half)
        pxY == FAdd(FromInt(y), Half)
        maxDistanceToCenter == FMin(hz.halfW, hz.halfH)
        offsetDistance == FMul(in.swirlOffset, maxDistanceToCenter)
        minThreshold == MinThreshold(hz)
        influenceFromLeft ==
            EdgeInfluence(FSub(pxX, offsetDistance), minThreshold)
        influenceFromRight ==
            EdgeInfluence(FSub(FSub(hz.containerW, pxX), offsetDistance), minThreshold)
        influenceFromTop ==
            EdgeInfluence(FSub(pxY, offsetDistance), minThreshold)
        influenceFromBottom ==
            EdgeInfluence(FSub(FSub(hz.containerH, pxY), offsetDistance), minThreshold)
    IN  FMax(FMax(influenceFromLeft, influenceFromRight),
             FMax(influenceFromTop, influenceFromBottom))

\* borderInfluence of pixel (x, y)
BorderInfluence(x, y, in, hz) ==
    IF IsInSwirlRegion(x, y, in, hz) THEN MaxEdgeInfluence(x, y, in, hz) ELSE Zero

\* The displacement of a pixel, one operator for each group of statements of
\* the loop body.  c holds the values of the statements before it, by name;
\* an operator computes its values, then hands them on to the next one.

\* dx and dy, from pos and uv.
DispDelta(c, hz) ==
    <<FMul(FSub(c.posX, c.uvX), hz.containerW),
      FMul(FSub(c.posY, c.uvY), hz.containerH)>>

\* pos, from the swirled point and the undistorted point.
DispPos(c, hz) ==
    CHOOSE d \in
        {DispDelta(n, hz) :
            n \in {c @@ [posX |-> FAdd(FAdd(FMul(FMul(c.swirlX, hz.displacementFactor),
                                                c.borderInfluence),
                                           FMul(c.ix, c.keep)), Half),
                         posY |-> FAdd(FAdd(FMul(FMul(c.swirlY, hz.displacementFactor),
                                                c.borderInfluence),
                                           FMul(c.iy, c.keep)), Half)]}} : TRUE

\* newRadius, swirlX and swirlY, from finalAngle and radiusVariation.
DispCartesian(c, hz) ==
    CHOOSE d \in
        {DispPos(n, hz) :
            n \in {c @@ [swirlX |-> FMul(FCos(c.finalAngle),
                                         FMul(c.radius, c.radiusVariation)),
                         swirlY |-> FMul(FSin(c.finalAngle),
                                         FMul(c.radius, c.radiusVariation)),
                         keep |-> FSub(One, FMul(FMul(hz.displacementFactor,
                                                      c.borderInfluence), F0_3))]}} : TRUE

\* finalAngle and radiusVariation, from swirlStrength.
DispVortex(c, hz) ==
    CHOOSE d \in
        {DispCartesian(n, hz) :
            n \in {c @@ [finalAngle |-> FAdd(c.angle, FMul(c.swirlStrength, hz.twoPi)),
                         radiusVariation |->
                             FAdd(One, FMul(FMul(c.swirlStrength, F0_1),
                                            FSin(FMul(c.angle, Three))))]}} : TRUE

\* scaledRadius, effectiveRadius and swirlStrength, from normalizedRadius.
DispStrength(c, hz) ==
    CHOOSE d \in
        {DispVortex(n, hz) :
            n \in {c @@ [swirlStrength |->
                             FMul(FMul(FMul(c.borderInfluence,
                                            FDiv(c.normalizedRadius,
                                                 hz.swirlScaleClamped)),
                                       FMul(c.normalizedRadius, hz.swirlRadiusClamped)),
                                  hz.swirlIntensityFactor)]}} : TRUE

\* normalizedRadius, from radius.
DispRadius(c, hz) ==
    CHOOSE d \in
        {DispStrength(n, hz) :
            n \in {c @@ [normalizedRadius |->
                             FMin(FDiv(c.radius, hz.maxRadius), One)]}} : TRUE

\* angle and radius, from ix and iy.
DispPolar(c, hz) ==
    CHOOSE d \in
        {DispRadius(n, hz) :
            n \in {c @@ [angle |-> FAtan2(c.iy, c.ix),
                         radius |-> FSqrt(FAdd(FMul(c.ix, c.ix),
                                               FMul(c.iy, c.iy)))]}} : TRUE

\* ix and iy, from uv.
DispCentered(c, hz) ==
    CHOOSE d \in
        {DispPolar(n, hz) :
            n \in {c @@ [ix |-> FSub(c.uvX, Half), iy |-> FSub(c.uvY, Half)]}} : TRUE

\* <<dx, dy>> of pixel (x, y): the raw displacement in device pixels, from
\* uv and borderInfluence.
Displacement(x, y, in, hz) ==
    CHOOSE d \in
        {DispCentered(c, hz) :
            c \in {[uvX |-> FDiv(FromInt(x), hz.containerW),
                    uvY |-> FDiv(FromInt(y), hz.containerH),
                    borderInfluence |-> BorderInfluence(x, y, in, hz)]}} : TRUE

(***************************************************************************)
(* One synthesis pass of updateShader, as a function of what its closure   *)
(* reads.                                                                  *)
(***************************************************************************)

\* The raw (dx, dy) of every pixel, row by row, as the first loop computes them.
RawField(in, hz) ==
    SubSeq([p \in 1..(hz.w * hz.h) |->
               Displacement((p - 1) % hz.w, (p - 1) \div hz.w, in, hz)],
           1, hz.w * hz.h)

\* maxScale as the first loop leaves it: the largest of 0 and the |dx| and
\* |dy| of every pixel.
RawMax(field) ==
    CHOOSE m \in {Zero} \cup {FAbs(field[i][c]) : i \in 1..Len(field), c \in 1..2} :
        \A i \in 1..Len(field), c \in 1..2 : FLe(FAbs(field[i][c]), m)

\* A floor of maxScale that does not halve the maximum.
ScaleFloorWhole(rawMax) == FMax(rawMax, One)

\* maxScale = Math.max(maxScale * 0.5, 1.0)
ScaleFloor(rawMax) == FMax(FMul(rawMax, Half), One)

\* maxScaleInv
ScaleInv(maxScale) == IF FLt(Zero, maxScale) THEN FDiv(One, maxScale) ELSE Zero

\* One R or G byte from one element of rawValues.
EncodeChannel(rawValue, maxScaleInv) ==
    LET normalized == FMul(rawValue, maxScaleInv)
        c == FMax(Zero, FMin(One, FAdd(FMul(normalized, Half), Half)))
    IN  ToUint8Clamped(FMul(c, F255))

\* filterScale without its floor of 1.
FilterScaleUnfloored(maxScale, dpi) == FDiv(maxScale, dpi)

\* filterScale
FilterScale(maxScale, dpi) == FMax(FDiv(maxScale, dpi), One)

\* rawValues after the first loop: the Float32Array of dx, dy pairs.
RawValues(field) ==
    [k \in 1..(2 * Len(field)) |-> ToSingle(field[(k + 1) \div 2][2 - (k % 2)])]

\* The bytes of a pixel with the alpha byte left 0.
EncodePixelTransparent(c, rawDx, rawDy, maxScaleInv) ==
    IF c = 0 THEN EncodeChannel(rawDx, maxScaleInv)
    ELSE IF c = 1 THEN EncodeChannel(rawDy, maxScaleInv)
    ELSE 0

\* The four bytes the second loop stores for one pixel, by channel c = 0..3.
EncodePixel(c, rawDx, rawDy, maxScaleInv) ==
    IF c = 0 THEN EncodeChannel(rawDx, maxScaleInv)
    ELSE IF c = 1 THEN EncodeChannel(rawDy, maxScaleInv)
    ELSE IF c = 2 THEN 0
    ELSE 255

\* The largest |value| among the first k elements of rawValues, 0 for none.
RunningMax(raw, k) ==
    CHOOSE m \in {Zero} \cup {FAbs(raw[j]) : j \in 1..k} :
        \A j \in 1..k : FLe(FAbs(raw[j]), m)

\* An encoder in one loop with the first: a pixel is normalized by the scale
\* of the largest displacement up to it, not of the whole field.
EncodeDataStreaming(raw, n, maxScaleInv) ==
    [i \in 1..(4 * n) |->
        EncodePixel((i - 1) % 4, raw[2 * ((i - 1) \div 4) + 1],
                    raw[2 * ((i - 1) \div 4) + 2],
                    ScaleInv(ScaleFloor(RunningMax(raw, 2 * ((i - 1) \div 4) + 2))))]

\* data after the second loop: RGBA bytes, from rawValues.
EncodeData(raw, n, maxScaleInv) ==
    [i \in 1..(4 * n) |->
        EncodePixel((i - 1) % 4, raw[2 * ((i - 1) \div 4) + 1],
                    raw[2 * ((i - 1) \div 4) + 2], maxScaleInv)]

\* The second loop and the scale, from what the first loop left.
SynthesisEncode(hz, raw, maxScale, dpi) ==
    [w |-> hz.w,
     h |-> hz.h,
     rawValues |-> raw,
     maxScale |-> maxScale,
     data |-> SubSeq(EncodeData(raw, hz.w * hz.h, ScaleInv(maxScale)),
                     1, 4 * hz.w * hz.h),
     filterScale |-> FilterScale(maxScale, dpi)]

\* The first loop: rawValues and maxScale, then the floor of maxScale.
SynthesisField(hz, field, dpi) ==
    SynthesisEncode(hz, SubSeq(RawValues(field), 1, 2 * Len(field)),
                    ScaleFloor(RawMax(field)), dpi)

\* The pixel loop, then what follows it.
SynthesisHoisted(in, hz) ==
    CHOOSE out \in {SynthesisField(hz, field, in.dpi) :
                       field \in {RawField(in, hz)}} : TRUE

\* What one pass computes: the size, the field, the scale and the bytes.
Synthesis(in) == SynthesisHoisted(in, Hoisted(in))

(***************************************************************************)
(* The component: React state and props, the DOM elements updateShader     *)
(* writes, and the events that make it render.                             *)
(***************************************************************************)
VARIABLES
    width,              \* useState(300): the tracked width, CSS pixels
    height,             \* useState(200): the tracked height, CSS pixels
    devicePixelRatio,   \* window.devicePixelRatio
    canvasDPI,          \* canvasDPI as the last render read it
    props,              \* the props updateShader depends on, as last rendered
    hasContext,         \* whether canvas.getContext('2d') returns a context
    effectPending,      \* a render committed and its updateShader effect has not run
    canvas,             \* the hidden canvas: width, height and RGBA bytes
    href,               \* the href of feImage: the canvas as a data URL
    scaleAttr,          \* the scale attribute of feDisplacementMap
    rawValues,          \* rawValues of the last pass
    lastMaxScale,       \* maxScale of the last pass, after the floor
    passes,             \* number of passes that ran to completion
    rafId,              \* rafId of the resize effect: is a frame callback pending
    rafEntry,           \* the content size the pending frame callback captured
    lastSizeRef,        \* lastSizeRef.current
    events,             \* number of environment events so far
    observed,           \* contentRect of the last resize notification, <<>> before the first
    uncaught,           \* the call of updateShader that threw into the effect, or "none"
    isPressed,          \* useState(false): isPressed
    internalIsExpanded, \* useState(false): internalIsExpanded
    pressStateCalls,    \* the arguments of the calls of onPressStateChange, in order
    rafIdRef,           \* rafIdRef.current: is a mouse frame callback pending
    mouseEntry,         \* the clientX, clientY the pending mouse frame callback captured
    internalGlobalMousePos, \* useState(null): internalGlobalMousePos, <<>> is null
    pointerInside,      \* the pointer is over the container: the last mouse event was a move
    pendingFrames,      \* how many frame callbacks the browser holds, by the effect that asked
    mounted,            \* the component is mounted
    observing,          \* the ResizeObserver observes the container
    listening,          \* mousemove and mouseleave listeners are on the container
    snap,               \* the inputs and outputs of one earlier pass
    probe               \* the arguments and results of one evaluation of a part of a pass

vars == <<width, height, devicePixelRatio, canvasDPI, props, hasContext,
          effectPending, canvas, href, scaleAttr, rawValues, lastMaxScale,
          passes, rafId, rafEntry, lastSizeRef, events, observed, uncaught,
          isPressed, internalIsExpanded, pressStateCalls, rafIdRef, mouseEntry,
          internalGlobalMousePos, pointerInside, pendingFrames, mounted, observing,
          listening, snap, probe>>

\* What the handlers of the pointer events read and write.
pointerVars == <<isPressed, internalIsExpanded, pressStateCalls>>

\* What the mouse tracking reads and writes.
mouseVars == <<rafIdRef, mouseEntry, internalGlobalMousePos, pointerInside>>

\* What the cleanups of the effects write.
lifeVars == <<mounted, observing, listening>>

\* How many environment events (renders by the parent, resize notifications,
\* mouse frames, zooms) one behaviour holds.
MaxEvents == 2

\* useState(300), useState(200)
InitialWidth == 300

InitialHeight == 200

\* Math.max(newWidth, 100)
MinTrackedSize == 100

MIN_SIZE_CHANGE == 2

\* The device pixel ratios of the environment.  They are small so that a
\* surface of some hundred CSS pixels has few device pixels.
PixelRatios == {Lit(1, 64), Lit(5, 256)}

\* The content sizes a resize notification reports, CSS pixels.
ContentSizes == {<<0, 0>>, <<400, 300>>}

\* An intensity at which a surface of few device pixels has displacements of
\* several pixels, as a surface of some hundred pixels has at the default.
HighIntensity == FromInt(2000)

\* The default props of LiquidGlass.
DefaultProps ==
    [borderRadius |-> FromInt(20),
     edgeThicknessPx |-> FromInt(12),
     swirlIntensity |-> FromInt(8),
     swirlScale |-> One,
     swirlRadius |-> One,
     swirlOffset |-> Zero,
     swirlEdges |-> <<"str", "all">>,
     enablePressState |-> FALSE,
     enableMorphicTransitions |-> FALSE,
     isExpanded |-> <<>>]

\* The props the parent renders LiquidGlass with.
RenderedProps ==
    {DefaultProps,
     [DefaultProps EXCEPT !.swirlIntensity = HighIntensity],
     [DefaultProps EXCEPT !.borderRadius = FromInt(8)],
     [DefaultProps EXCEPT !.swirlEdges = <<"str", "top-left">>, !.swirlOffset = Half]}

\* What the updateShader closure of a render reads: the tracked size, canvasDPI
\* and the props of that render.
RenderInputs(w, h, dpi, p) ==
    [width |-> w,
     height |-> h,
     dpi |-> dpi,
     borderRadius |-> p.borderRadius,
     edgeThicknessPx |-> p.edgeThicknessPx,
     swirlIntensity |-> p.swirlIntensity,
     swirlScale |-> p.swirlScale,
     swirlRadius |-> p.swirlRadius,
     swirlOffset |-> p.swirlOffset,
     swirlEdges |-> p.swirlEdges]

\* What the updateShader closure of the last render reads.
Inputs == RenderInputs(width, height, canvasDPI, props)

\* A canvas of w by h transparent black pixels.
Blank(w, h) ==
    [width |-> w, height |-> h,
     data |-> SubSeq([i \in 1..(4 * w * h) |-> 0], 1, 4 * w * h)]

\* The canvas element as first rendered: width={width * canvasDPI}.
InitialCanvas(dpi) ==
    Blank(FFloor(FMul(FromInt(InitialWidth), dpi)),
          FFloor(FMul(FromInt(InitialHeight), dpi)))

\* canvas.width = w; canvas.height = h, when they differ.
ResizeCanvas(c, w, h) ==
    IF c.width # w \/ c.height # h THEN Blank(w, h) ELSE c

\* context.putImageData(new ImageData(data, w, h), 0, 0)
PutImageData(c, data, w, h) ==
    [c EXCEPT !.data =
        SubSeq([i \in 1..(4 * c.width * c.height) |->
                   LET px == (i - 1) \div 4
                       x == px % c.width
                       y == px \div c.width
                   IN  IF x < w /\ y < h
                       THEN data[4 * (y * w + x) + 1 + ((i - 1) % 4)]
                       ELSE c.data[i]],
               1, 4 * c.width * c.height)]

\* A scale attribute that is only ever raised.
NextScaleAttrRaised(currentScale, filterScale) ==
    IF ~currentScale.set \/ FLt(currentScale.value, filterScale)
    THEN [set |-> TRUE, value |-> filterScale]
    ELSE currentScale

\* The scale attribute after the pass: written only when the text differs.
NextScaleAttr(currentScale, filterScale) ==
    IF ~currentScale.set \/ currentScale.value # filterScale
    THEN [set |-> TRUE, value |-> filterScale]
    ELSE currentScale

NoProbe == [kind |-> "none"]

\* The component after its first render with props p, at device pixel ratio r.
Mounted(p, r, ctx) ==
    /\ width = InitialWidth
    /\ height = InitialHeight
    /\ devicePixelRatio = r
    /\ canvasDPI = r
    /\ props = p
    /\ hasContext = ctx
    /\ effectPending = TRUE
    /\ canvas = InitialCanvas(r)
    /\ href = [set |-> FALSE, width |-> 0, height |-> 0, data |-> <<>>]
    /\ scaleAttr = [set |-> FALSE, value |-> Zero]
    /\ rawValues = <<>>
    /\ lastMaxScale = Zero
    /\ passes = 0
    /\ rafId = FALSE
    /\ rafEntry = <<InitialWidth, InitialHeight>>
    /\ lastSizeRef = <<InitialWidth, InitialHeight>>
    /\ events = 0
    /\ observed = <<>>
    /\ uncaught = "none"
    /\ isPressed = FALSE
    /\ internalIsExpanded = FALSE
    /\ pressStateCalls = <<>>
    /\ rafIdRef = FALSE
    /\ mouseEntry = <<0, 0>>
    /\ internalGlobalMousePos = <<>>
    /\ pointerInside = FALSE
    /\ pendingFrames = [resize |-> 0, mouse |-> 0]
    /\ mounted = TRUE
    /\ observing = TRUE
    /\ listening = TRUE
    /\ snap = [set |-> FALSE]

Init ==
    /\ \E r \in PixelRatios, ctx \in BOOLEAN : Mounted(DefaultProps, r, ctx)
    /\ probe = NoProbe

\* snap after a pass that does not capture: it records that a pass with other
\* inputs ran since the capture.
SnapAfter ==
    IF snap.set /\ snap.in # Inputs THEN [snap EXCEPT !.between = TRUE] ELSE snap

\* The calls at the end of updateShader that can throw: new ImageData,
\* context.putImageData and canvas.toDataURL.
Failures == {"ImageData", "putImageData", "toDataURL"}

\* The end of a pass in which the call f throws: the statements before f have
\* run, nothing catches the exception and it leaves updateShader.
Throws(f, out) ==
    /\ uncaught' = f
    /\ canvas' = IF f = "toDataURL"
                 THEN PutImageData(ResizeCanvas(canvas, out.w, out.h),
                                   out.data, out.w, out.h)
                 ELSE ResizeCanvas(canvas, out.w, out.h)
    /\ rawValues' = out.rawValues
    /\ lastMaxScale' = out.maxScale
    /\ UNCHANGED <<href, scaleAttr, passes, snap>>

\* The effect of a committed render: updateShader().
UpdateShader ==
    /\ uncaught = "none"
    /\ effectPending
    /\ effectPending' = FALSE
    /\ IF ~hasContext
       THEN UNCHANGED <<canvas, href, scaleAttr, rawValues, lastMaxScale, passes,
                        snap, uncaught>>
       ELSE \E out \in {Synthesis(Inputs)} :
                IF Len(out.data) # out.w * out.h * 4
                THEN /\ canvas' = ResizeCanvas(canvas, out.w, out.h)
                     /\ rawValues' = out.rawValues
                     /\ lastMaxScale' = out.maxScale
                     /\ UNCHANGED <<href, scaleAttr, passes, snap, uncaught>>
                ELSE \/ /\ canvas' = PutImageData(ResizeCanvas(canvas, out.w, out.h),
                                                  out.data, out.w, out.h)
                        /\ href' = [set |-> TRUE, width |-> canvas'.width,
                                    height |-> canvas'.height, data |-> canvas'.data]
                        /\ scaleAttr' = NextScaleAttr(scaleAttr, out.filterScale)
                        /\ rawValues' = out.rawValues
                        /\ lastMaxScale' = out.maxScale
                        /\ passes' = passes + 1
                        /\ uncaught' = "none"
                        /\ \/ snap' = SnapAfter
                           \/ /\ ~snap.set
                              /\ snap' = [set |-> TRUE, in |-> Inputs, href |-> href',
                                          scale |-> scaleAttr', between |-> FALSE]
                     \/ \E f \in Failures : Throws(f, out)
    /\ UNCHANGED <<width, height, devicePixelRatio, canvasDPI, props, hasContext,
                   rafId, rafEntry, lastSizeRef, events, observed, pointerVars, mouseVars, lifeVars, pendingFrames, probe>>

\* The dependency list of the useCallback of updateShader after a render
\* with the inputs in.  Its last element is smoothStep, which every render
\* creates anew: the closures of two renders are two objects, told apart
\* here by the render that made them.
UpdateShaderDeps(in, render) ==
    <<in.width, in.height, in.dpi, in.borderRadius, in.swirlIntensity, in.swirlScale,
      in.swirlRadius, in.edgeThicknessPx, in.swirlOffset, in.swirlEdges,
      <<"smoothStep", render>>>>

\* A dependency list in which only width and height are compared.
DepsChangedBySize(prevDeps, nextDeps) ==
    prevDeps[1] # nextDeps[1] \/ prevDeps[2] # nextDeps[2]

\* Whether useCallback returns a new updateShader, so that the effect that
\* depends on it runs: some dependency differs from the previous render's.
DepsChanged(prevDeps, nextDeps) ==
    \E i \in 1..Len(prevDeps) : prevDeps[i] # nextDeps[i]

\* A render at the tracked size newWidth by newHeight with the props
\* newProps: the component function runs, reads window.devicePixelRatio and
\* recreates smoothStep; the effect of updateShader runs when its dependency
\* list changed; React writes the width and height attributes of the canvas
\* when their values changed, which clears it.  React runs the effects of a
\* render before the next render, so a render waits for a pending effect.
Commit(newWidth, newHeight, newProps) ==
    /\ uncaught = "none"
    /\ mounted
    /\ ~effectPending
    /\ canvasDPI' = devicePixelRatio
    /\ effectPending' =
          DepsChanged(UpdateShaderDeps(Inputs, "previous"),
                      UpdateShaderDeps(RenderInputs(newWidth, newHeight,
                                                    devicePixelRatio, newProps),
                                       "this"))
    /\ canvas' =
          IF \/ FMul(FromInt(newWidth), devicePixelRatio) # FMul(FromInt(width), canvasDPI)
             \/ FMul(FromInt(newHeight), devicePixelRatio) # FMul(FromInt(height), canvasDPI)
          THEN Blank(FFloor(FMul(FromInt(newWidth), devicePixelRatio)),
                     FFloor(FMul(FromInt(newHeight), devicePixelRatio)))
          ELSE canvas

\* The parent renders LiquidGlass with other props.
RenderProps ==
    /\ events < MaxEvents
    /\ events' = events + 1
    /\ \E p \in RenderedProps : p # props /\ props' = p /\ Commit(width, height, p)
    /\ UNCHANGED <<width, height, devicePixelRatio, hasContext, href,
                   scaleAttr, rawValues, lastMaxScale, passes, rafId, rafEntry,
                   lastSizeRef, observed, uncaught, pointerVars, mouseVars, lifeVars, pendingFrames, snap, probe>>

\* The browser zoom changes window.devicePixelRatio.
Zoom ==
    /\ events < MaxEvents
    /\ events' = events + 1
    /\ \E r \in PixelRatios : r # devicePixelRatio /\ devicePixelRatio' = r
    /\ UNCHANGED <<width, height, canvasDPI, props, hasContext, effectPending, canvas,
                   href, scaleAttr, rawValues, lastMaxScale, passes, rafId, rafEntry,
                   lastSizeRef, observed, uncaught, pointerVars, mouseVars, lifeVars, pendingFrames, snap, probe>>

\* A throttle that lets every notification through.
ThrottleNever(id) == FALSE

\* if (rafId !== null) return; if (rafIdRef.current !== null) return: whether
\* the notification is dropped because a frame callback is pending.
Throttle(id) == id

\* A cleanup that cancels nothing.
CancelNothing(id, pending) == pending

\* if (rafId !== null) cancelAnimationFrame(rafId): the frame callbacks the
\* browser still holds for the effect.
CancelAnimationFrame(id, pending) == IF id /\ pending > 0 THEN pending - 1 ELSE pending

\* A tracked size that follows the content size below 100.
Unclamped(n) == n

\* Math.max(newWidth, 100)
ClampTracked(n) == IF n > MinTrackedSize THEN n ELSE MinTrackedSize

\* The ResizeObserver callback: schedules a frame callback unless one is pending.
ResizeObserved ==
    /\ uncaught = "none"
    /\ observing
    /\ events < MaxEvents
    /\ events' = events + 1
    /\ \E size \in ContentSizes :
          /\ observed' = size
          /\ IF Throttle(rafId) THEN UNCHANGED <<rafId, rafEntry, pendingFrames>>
             ELSE /\ rafId' = TRUE
                  /\ rafEntry' = size
                  /\ pendingFrames' = [pendingFrames EXCEPT !.resize = @ + 1]
    /\ UNCHANGED <<width, height, devicePixelRatio, canvasDPI, props, hasContext,
                   effectPending, canvas, href, scaleAttr, rawValues, lastMaxScale,
                   passes, lastSizeRef, uncaught, pointerVars, mouseVars, lifeVars,
                   snap, probe>>

\* The frame callback the ResizeObserver callback scheduled.  The setters of
\* an unmounted component store nothing.
ResizeFrame ==
    /\ uncaught = "none"
    /\ ~effectPending
    /\ pendingFrames.resize > 0
    /\ pendingFrames' = [pendingFrames EXCEPT !.resize = @ - 1]
    /\ rafId' = FALSE
    /\ LET clampedW == ClampTracked(rafEntry[1])
           clampedH == ClampTracked(rafEntry[2])
       IN  IF \/ AbsInt(clampedW - lastSizeRef[1]) >= MIN_SIZE_CHANGE
              \/ AbsInt(clampedH - lastSizeRef[2]) >= MIN_SIZE_CHANGE
           THEN /\ lastSizeRef' = <<clampedW, clampedH>>
                /\ IF mounted /\ (clampedW # width \/ clampedH # height)
                   THEN /\ width' = clampedW
                        /\ height' = clampedH
                        /\ Commit(clampedW, clampedH, props)
                   ELSE UNCHANGED <<width, height, canvasDPI, effectPending, canvas>>
           ELSE UNCHANGED <<lastSizeRef, width, height, canvasDPI, effectPending, canvas>>
    /\ UNCHANGED <<devicePixelRatio, props, hasContext, href, scaleAttr,
                   rawValues, lastMaxScale, passes, rafEntry, events, observed,
                   uncaught, pointerVars, mouseVars, lifeVars, snap, probe>>

\* The clientX, clientY of the mouse events: over the component and beside it.
MousePositions == {<<150, 100>>, <<520, 100>>}

\* handleMouseMove: schedules a frame callback unless one is pending.
MouseMove ==
    /\ uncaught = "none"
    /\ listening
    /\ events < MaxEvents
    /\ events' = events + 1
    /\ pointerInside' = TRUE
    /\ \E pos \in MousePositions :
          IF Throttle(rafIdRef) THEN UNCHANGED <<rafIdRef, mouseEntry, pendingFrames>>
          ELSE /\ rafIdRef' = TRUE
               /\ mouseEntry' = pos
               /\ pendingFrames' = [pendingFrames EXCEPT !.mouse = @ + 1]
    /\ UNCHANGED <<width, height, devicePixelRatio, canvasDPI, props, hasContext,
                   effectPending, canvas, href, scaleAttr, rawValues, lastMaxScale,
                   passes, rafId, rafEntry, lastSizeRef, observed, uncaught,
                   pointerVars, internalGlobalMousePos, lifeVars, snap, probe>>

\* The frame callback of handleMouseMove: setInternalGlobalMousePos stores a
\* new object, so the component renders with the same props and size.  The
\* container of an unmounted component is null and the callback returns.
MouseFrame ==
    /\ uncaught = "none"
    /\ ~effectPending
    /\ pendingFrames.mouse > 0
    /\ pendingFrames' = [pendingFrames EXCEPT !.mouse = @ - 1]
    /\ rafIdRef' = FALSE
    /\ IF mounted
       THEN /\ internalGlobalMousePos' = mouseEntry
            /\ Commit(width, height, props)
       ELSE UNCHANGED <<internalGlobalMousePos, canvasDPI, effectPending, canvas>>
    /\ UNCHANGED <<width, height, devicePixelRatio, props, hasContext, href,
                   scaleAttr, rawValues, lastMaxScale, passes, rafId, rafEntry,
                   lastSizeRef, events, observed, uncaught, pointerVars, mouseEntry,
                   pointerInside, lifeVars, snap, probe>>

\* handleMouseLeave: setInternalGlobalMousePos(null).  The component renders
\* when the position was not null.
MouseLeave ==
    /\ uncaught = "none"
    /\ ~effectPending
    /\ listening
    /\ pointerInside
    /\ events < MaxEvents
    /\ events' = events + 1
    /\ pointerInside' = FALSE
    /\ internalGlobalMousePos' = <<>>
    /\ IF internalGlobalMousePos # <<>> THEN Commit(width, height, props)
       ELSE UNCHANGED <<canvasDPI, effectPending, canvas>>
    /\ UNCHANGED <<width, height, devicePixelRatio, props, hasContext, href,
                   scaleAttr, rawValues, lastMaxScale, passes, rafId, rafEntry,
                   lastSizeRef, observed, uncaught, pointerVars, rafIdRef, mouseEntry,
                   pendingFrames, lifeVars, snap, probe>>

\* The component unmounts: the cleanups of the resize effect and of the
\* mouse tracking effect run.
Unmount ==
    /\ uncaught = "none"
    /\ ~effectPending
    /\ mounted
    /\ mounted' = FALSE
    /\ observing' = FALSE
    /\ listening' = FALSE
    /\ pendingFrames' =
          [resize |-> CancelAnimationFrame(rafId, pendingFrames.resize),
           mouse |-> CancelAnimationFrame(rafIdRef, pendingFrames.mouse)]
    /\ rafIdRef' = FALSE
    /\ UNCHANGED <<width, height, devicePixelRatio, canvasDPI, props, hasContext,
                   effectPending, canvas, href, scaleAttr, rawValues, lastMaxScale,
                   passes, rafId, rafEntry, lastSizeRef, events, observed, uncaught,
                   pointerVars, mouseEntry, internalGlobalMousePos, pointerInside,
                   snap, probe>>

Next ==
    \/ UpdateShader
    \/ RenderProps
    \/ MouseMove
    \/ MouseFrame
    \/ Zoom
    \/ ResizeObserved
    \/ ResizeFrame

Spec == Init /\ [][Next]_vars

(***************************************************************************)
(* The pointer events of the container: press state and morphic            *)
(* transitions.  A handler that sets state renders the component.           *)
(***************************************************************************)

\* externalIsExpanded: the isExpanded prop after the default of the
\* destructuring, isExpanded: externalIsExpanded = false.  <<>> is undefined.
ExternalIsExpanded(p) == IF p.isExpanded = <<>> THEN <<FALSE>> ELSE p.isExpanded

\* isExpanded
IsExpanded ==
    IF props.enableMorphicTransitions
    THEN (IF ExternalIsExpanded(props) # <<>> THEN ExternalIsExpanded(props)[1]
                                              ELSE internalIsExpanded)
    ELSE FALSE

\* The width and height of the style of the container, with the default
\* expandedWidth and expandedHeight and no collapsedWidth or collapsedHeight.
MorphicDimensions ==
    IF props.enableMorphicTransitions /\ IsExpanded THEN <<"400px", "320px">>
    ELSE <<"100%", "100%">>

\* onMouseDown: handlePress.  setTouchPoint stores a new object, so the
\* component renders.
HandlePress ==
    /\ events < MaxEvents
    /\ events' = events + 1
    /\ props.enablePressState
    /\ isPressed' = TRUE
    /\ pressStateCalls' = Append(pressStateCalls, TRUE)
    /\ Commit(width, height, props)
    /\ UNCHANGED <<width, height, devicePixelRatio, props, hasContext, href,
                   scaleAttr, rawValues, lastMaxScale, passes, rafId, rafEntry,
                   lastSizeRef, observed, uncaught, internalIsExpanded, mouseVars, lifeVars,
                   pendingFrames, snap, probe>>

\* onMouseUp and onMouseLeave: handleRelease.  The component renders when
\* isPressed changed.
HandleRelease ==
    /\ events < MaxEvents
    /\ events' = events + 1
    /\ props.enablePressState
    /\ uncaught = "none"
    /\ ~effectPending
    /\ isPressed' = FALSE
    /\ pressStateCalls' = Append(pressStateCalls, FALSE)
    /\ IF isPressed THEN Commit(width, height, props)
                    ELSE UNCHANGED <<canvasDPI, effectPending, canvas>>
    /\ UNCHANGED <<width, height, devicePixelRatio, props, hasContext, href,
                   scaleAttr, rawValues, lastMaxScale, passes, rafId, rafEntry,
                   lastSizeRef, observed, uncaught, internalIsExpanded, mouseVars, lifeVars,
                   pendingFrames, snap, probe>>

\* onClick: handleClick, bound when enableMorphicTransitions is set.
HandleClick ==
    /\ events < MaxEvents
    /\ events' = events + 1
    /\ props.enableMorphicTransitions
    /\ uncaught = "none"
    /\ ~effectPending
    /\ IF props.enableMorphicTransitions /\ ExternalIsExpanded(props) = <<>>
       THEN /\ internalIsExpanded' = ~internalIsExpanded
            /\ Commit(width, height, props)
       ELSE UNCHANGED <<internalIsExpanded, canvasDPI, effectPending, canvas>>
    /\ UNCHANGED <<width, height, devicePixelRatio, props, hasContext, href,
                   scaleAttr, rawValues, lastMaxScale, passes, rafId, rafEntry,
                   lastSizeRef, observed, uncaught, isPressed, pressStateCalls,
                   mouseVars, lifeVars, pendingFrames, snap, probe>>

\* The props of the press state and of the morphic transitions.
PointerProps ==
    {[DefaultProps EXCEPT !.enablePressState = a, !.enableMorphicTransitions = b,
                          !.isExpanded = e] :
        a \in BOOLEAN, b \in BOOLEAN, e \in {<<>>, <<TRUE>>, <<FALSE>>}}

InitPointer ==
    /\ \E p \in PointerProps, r \in PixelRatios : Mounted(p, r, TRUE)
    /\ probe = NoProbe

NextPointer ==
    \/ UpdateShader
    \/ HandlePress
    \/ HandleRelease
    \/ HandleClick

SpecPointer == InitPointer /\ [][NextPointer]_vars

(***************************************************************************)
(* The swirl edges of the demo control panel.  The App keeps the props of  *)
(* LiquidGlass in its state; a handler of the panel stores new props and   *)
(* the App renders LiquidGlass with them.                                  *)
(***************************************************************************)

\* How many changes of the checkboxes one behaviour holds.
MaxToggles == 4

\* The corners of the per-corner checkboxes, in the order they are rendered.
PanelCorners == <<"top-left", "top-right", "bottom-right", "bottom-left">>

\* checked of the checkbox of a corner.
IsChecked(swirlEdges, edge) ==
    \/ swirlEdges = <<"str", "all">>
    \/ /\ swirlEdges[1] = "arr"
       /\ \E i \in 1..Len(swirlEdges[2]) : swirlEdges[2][i] = edge

\* onChange of the 'All Edges' checkbox; e.target.checked is the opposite of
\* the checked the box was rendered with.
AllEdgesChange ==
    /\ events < MaxToggles
    /\ events' = events + 1
    /\ LET checked == ~(props.swirlEdges = <<"str", "all">>)
       IN  props' = [props EXCEPT !.swirlEdges =
                        IF checked THEN <<"str", "all">> ELSE <<"arr", <<>>>>]
    /\ Commit(width, height, props')
    /\ UNCHANGED <<width, height, devicePixelRatio, hasContext, href,
                   scaleAttr, rawValues, lastMaxScale, passes, rafId, rafEntry,
                   lastSizeRef, observed, uncaught, pointerVars, mouseVars, lifeVars,
                   pendingFrames, snap, probe>>

\* onChange of the checkbox of a corner.
EdgeChange ==
    /\ events < MaxToggles
    /\ events' = events + 1
    /\ props.swirlEdges # <<"str", "all">>
    /\ \E k \in 1..Len(PanelCorners) :
          LET edge == PanelCorners[k]
              current == IF props.swirlEdges[1] = "arr" THEN props.swirlEdges[2] ELSE <<>>
              checked == ~IsChecked(props.swirlEdges, edge)
              newEdges == SelectSeq(current, LAMBDA ed : ed # edge)
          IN  props' = [props EXCEPT !.swirlEdges =
                           IF checked THEN <<"arr", Append(current, edge)>>
                           ELSE IF Len(newEdges) = 0 THEN <<"str", "all">>
                           ELSE <<"arr", newEdges>>]
    /\ Commit(width, height, props')
    /\ UNCHANGED <<width, height, devicePixelRatio, hasContext, href,
                   scaleAttr, rawValues, lastMaxScale, passes, rafId, rafEntry,
                   lastSizeRef, observed, uncaught, pointerVars, mouseVars, lifeVars,
                   pendingFrames, snap, probe>>

InitPanel ==
    /\ \E r \in PixelRatios : Mounted(DefaultProps, r, TRUE)
    /\ probe = NoProbe

NextPanel ==
    \/ UpdateShader
    \/ AllEdgesChange
    \/ EdgeChange

SpecPanel == InitPanel /\ [][NextPanel]_vars

(***************************************************************************)
(* The tracking of the size and of the mouse, and the unmount.             *)
(***************************************************************************)

NextTrack ==
    \/ UpdateShader
    \/ ResizeObserved
    \/ ResizeFrame
    \/ MouseMove
    \/ MouseFrame
    \/ MouseLeave
    \/ Unmount

SpecTrack == Init /\ [][NextTrack]_vars

(***************************************************************************)
(* The first pass of a component mounted with any props: updateShader as a *)
(* function of its inputs.                                                 *)
(***************************************************************************)
MountIntensities == {FromInt(8), Zero, HighIntensity}

MountScales == {One, Zero, FNeg(One), Lit(1, 20)}

MountRadii == {One, Zero, FNeg(Half)}

MountOffsets == {Zero, Half}

MountEdges == {<<"str", "all">>, <<"arr", <<>>>>, <<"str", "top-left">>,
               <<"arr", <<"bottom-right", "top-right">>>>}

\* As PixelRatios, and one at which width * canvasDPI is below 1.
MountPixelRatios == {Lit(1, 512), Lit(1, 64), Lit(5, 256)}

\* Other ways to write a selection of corners: one corner in an array, the
\* corners in another order, a corner twice, all four corners.
MountEdgeForms ==
    {<<"arr", <<"top-left">>>>,
     <<"arr", <<"top-left", "top-left">>>>,
     <<"arr", <<"top-right", "bottom-right">>>>,
     <<"arr", <<"bottom-right", "top-right", "bottom-right">>>>,
     <<"arr", <<"top-left", "top-right", "bottom-right", "bottom-left">>>>,
     <<"arr", <<"bottom-left", "top-left", "bottom-right", "top-right">>>>}

MountProps ==
    {[DefaultProps EXCEPT !.swirlIntensity = i, !.swirlScale = s, !.swirlRadius = r,
                          !.swirlOffset = o, !.swirlEdges = e] :
        i \in MountIntensities, s \in MountScales, r \in MountRadii,
        o \in MountOffsets, e \in MountEdges}
    \cup
    {[DefaultProps EXCEPT !.swirlIntensity = i, !.swirlOffset = o, !.swirlEdges = e] :
        i \in MountIntensities, o \in MountOffsets, e \in MountEdgeForms}

InitMount ==
    /\ \E p \in MountProps, r \in MountPixelRatios, ctx \in BOOLEAN : Mounted(p, r, ctx)
    /\ probe = NoProbe

NextMount == UpdateShader

SpecMount == InitMount /\ [][NextMount]_vars

(***************************************************************************)
(* Parts of a pass evaluated alone, on surfaces of the sizes a browser      *)
(* gives: the influence of one pixel, and the scale from the largest raw    *)
(* displacement.                                                            *)
(***************************************************************************)

\* The component while a part of a pass is evaluated alone.
Idle == Mounted(DefaultProps, Lit(1, 64), TRUE)

\* Tracked width, tracked height and device pixel ratio.
ProbeSurfaces ==
    {<<300, 200, One>>, <<300, 200, Two>>, <<100, 100, One>>, <<100, 100, Half>>,
     <<160, 120, Half>>, <<300, 200, Lit(1, 4)>>, <<100, 100, Lit(1, 32)>>,
     <<128, 128, Lit(1, 32)>>, <<128, 128, Lit(1, 64)>>, <<128, 128, Lit(1, 128)>>}

ProbeThicknesses == {FromInt(12), FromInt(40)}

ProbeOffsets == {Zero, Half}

ProbeEdges == {<<"str", "all">>, <<"str", "top-left">>}

\* Pixel columns and rows: near the edges, about the thresholds, the middle.
ProbeColumns(w) == {x \in {0, 11, 12, 19, 20, 24, w \div 2, w - 1} : x >= 0 /\ x < w}

ProbeRows(h) == {y \in {0, 24, 55, h \div 2, h - 1} : y >= 0 /\ y < h}

\* Adjusted distances from an edge.
ProbeDistances == {Zero, FromInt(12), FromInt(20), FromInt(300)}

ProbeInputs(s, t, o, e) ==
    [width |-> s[1],
     height |-> s[2],
     dpi |-> s[3],
     borderRadius |-> DefaultProps.borderRadius,
     edgeThicknessPx |-> t,
     swirlIntensity |-> DefaultProps.swirlIntensity,
     swirlScale |-> DefaultProps.swirlScale,
     swirlRadius |-> DefaultProps.swirlRadius,
     swirlOffset |-> o,
     swirlEdges |-> e]

PixelProbes ==
    UNION {{[kind |-> "pixel", in |-> ProbeInputs(s, t, o, e), x |-> x, y |-> y,
             distance |-> d, done |-> FALSE, influence |-> Zero, falloff |-> Zero,
             threshold |-> Zero, minThreshold |-> Zero] :
               x \in ProbeColumns(DeviceSize(s[1], s[3])),
               y \in ProbeRows(DeviceSize(s[2], s[3])),
               d \in ProbeDistances} :
           s \in ProbeSurfaces, t \in ProbeThicknesses, o \in ProbeOffsets,
           e \in ProbeEdges}

InitPixel == Idle /\ probe \in PixelProbes

\* One turn of the pixel loop up to borderInfluence, and the falloff of one
\* edge at the distance of the probe.
EvaluateInfluence ==
    /\ probe.kind = "pixel"
    /\ ~probe.done
    /\ \E hz \in {Hoisted(probe.in)} :
          probe' = [probe EXCEPT
                       !.done = TRUE,
                       !.influence = BorderInfluence(probe.x, probe.y, probe.in, hz),
                       !.falloff = EdgeInfluence(probe.distance, MinThreshold(hz)),
                       !.threshold = hz.threshold,
                       !.minThreshold = MinThreshold(hz)]
    /\ UNCHANGED <<width, height, devicePixelRatio, canvasDPI, props, hasContext,
                   effectPending, canvas, href, scaleAttr, rawValues, lastMaxScale,
                   passes, rafId, rafEntry, lastSizeRef, events, observed, uncaught,
                   pointerVars, mouseVars, lifeVars, pendingFrames, snap>>

NextPixel == EvaluateInfluence

SpecPixel == InitPixel /\ [][NextPixel]_vars

\* The largest |dx| or |dy| the first loop found.
ScaleRawMaxima ==
    {Zero, Half, One, Two, Three, FromInt(7), Lit(158, 10), FromInt(40), FromInt(1000)}

ScalePixelRatios ==
    {Lit(1, 64), Lit(1, 4), Half, Lit(3, 4), Lit(9, 11), Lit(26, 29), One, Lit(5, 4),
     Lit(3, 2), Two, Three}

ScaleProbes ==
    {[kind |-> "scale", rawMax |-> m, dpi |-> r, done |-> FALSE] :
        m \in ScaleRawMaxima, r \in ScalePixelRatios}

InitScale == Idle /\ probe \in ScaleProbes

\* The end of a pass: the floor of maxScale, filterScale, the scale attribute.
DeriveScale ==
    /\ probe.kind = "scale"
    /\ ~probe.done
    /\ probe' = [probe EXCEPT !.done = TRUE]
    /\ lastMaxScale' = ScaleFloor(probe.rawMax)
    /\ scaleAttr' = NextScaleAttr(scaleAttr, FilterScale(lastMaxScale', probe.dpi))
    /\ UNCHANGED <<width, height, devicePixelRatio, canvasDPI, props, hasContext,
                   effectPending, canvas, href, rawValues, passes, rafId, rafEntry,
                   lastSizeRef, events, observed, uncaught, pointerVars, mouseVars, lifeVars, pendingFrames, snap>>

NextScale == DeriveScale

SpecScale == InitScale /\ [][NextScale]_vars

(***************************************************************************)
(* The elasticity: getComponentBounds and the translation it scales.       *)
(***************************************************************************)

\* The quotient 0 / 0: not a number.  No rounding gives this pair.
NaN == <<0, 1>>

\* a / b where b can be 0 and a is then 0.
Quotient(a, b) == IF b[1] = 0 /\ a[1] = 0 THEN NaN ELSE FDiv(a, b)

\* a - b where b can be NaN.
Minus(a, b) == IF b = NaN THEN NaN ELSE FSub(a, b)

\* a * b where b can be NaN.
Times(a, b) == IF b = NaN THEN NaN ELSE FMul(a, b)

\* The default of the elasticity prop.
F0_15 == Lit(15, 100)

\* getComponentBounds, for a mouse position that is not null: the bounds,
\* or null when the mouse is outside the activation zone.
GetComponentBounds(globalMousePos, rect, componentWidth, componentHeight, elasticityActivationZone) ==
    LET componentCenterX == FAdd(FromInt(rect.left), FDiv(FromInt(rect.width), Two))
        componentCenterY == FAdd(FromInt(rect.top), FDiv(FromInt(rect.height), Two))
        edgeDistanceX ==
            FMax(Zero, FSub(FAbs(FSub(FromInt(globalMousePos[1]), componentCenterX)),
                            FDiv(FromInt(componentWidth), Two)))
        edgeDistanceY ==
            FMax(Zero, FSub(FAbs(FSub(FromInt(globalMousePos[2]), componentCenterY)),
                            FDiv(FromInt(componentHeight), Two)))
        edgeDistance ==
            FSqrt(FAdd(FMul(edgeDistanceX, edgeDistanceX),
                       FMul(edgeDistanceY, edgeDistanceY)))
    IN  IF FLt(elasticityActivationZone, edgeDistance)
        THEN [null |-> TRUE, fadeInFactor |-> Zero, centerX |-> Zero, centerY |-> Zero,
              edgeDistance |-> edgeDistance]
        ELSE [null |-> FALSE,
              fadeInFactor |-> Minus(One, Quotient(edgeDistance, elasticityActivationZone)),
              centerX |-> componentCenterX,
              centerY |-> componentCenterY,
              edgeDistance |-> edgeDistance]

\* calculateElasticTranslation
CalculateElasticTranslation(globalMousePos, bounds, elasticity) ==
    IF bounds.null THEN <<Zero, Zero>>
    ELSE <<Times(FMul(FMul(FSub(FromInt(globalMousePos[1]), bounds.centerX),
                           elasticity), F0_1), bounds.fadeInFactor),
           Times(FMul(FMul(FSub(FromInt(globalMousePos[2]), bounds.centerY),
                           elasticity), F0_1), bounds.fadeInFactor)>>

\* getBoundingClientRect of the container, at the tracked size 300 by 200.
BoundsRect == [left |-> 100, top |-> 100, width |-> InitialWidth, height |-> InitialHeight]

\* clientX and clientY of the mouse: over the component, on its edge, beside
\* it and far from it.
BoundsMouseX == {0, 90, 100, 250, 400, 410, 450, 700, 1000}

BoundsMouseY == {0, 100, 200, 300, 310, 600}

\* elasticityActivationZone: the range of the slider of the control panel
\* is 0 to 500.
ActivationZones == {Zero, FromInt(10), FromInt(200), FromInt(500)}

BoundsProbes ==
    {[kind |-> "bounds", mouse |-> <<x, y>>, zone |-> z, done |-> FALSE,
      bounds |-> [null |-> TRUE, fadeInFactor |-> Zero, centerX |-> Zero,
                  centerY |-> Zero, edgeDistance |-> Zero],
      translation |-> <<Zero, Zero>>] :
        x \in BoundsMouseX, y \in BoundsMouseY, z \in ActivationZones}

InitBounds == Idle /\ probe \in BoundsProbes

\* A render in which transformStyle is computed for a mouse position.
ComputeBounds ==
    /\ probe.kind = "bounds"
    /\ ~probe.done
    /\ \E b \in {GetComponentBounds(probe.mouse, BoundsRect, width, height, probe.zone)} :
          probe' = [probe EXCEPT
                       !.done = TRUE,
                       !.bounds = b,
                       !.translation = CalculateElasticTranslation(probe.mouse, b, F0_15)]
    /\ UNCHANGED <<width, height, devicePixelRatio, canvasDPI, props, hasContext,
                   effectPending, canvas, href, scaleAttr, rawValues, lastMaxScale,
                   passes, rafId, rafEntry, lastSizeRef, events, observed, uncaught,
                   pointerVars, mouseVars, lifeVars, pendingFrames, snap>>

NextBounds == ComputeBounds

SpecBounds == InitBounds /\ [][NextBounds]_vars

(***************************************************************************)
(* The SDF-gated variant of updateShader, next to the edge-distance one.   *)
(***************************************************************************)

\* length
length(x, y) == FSqrt(FAdd(FMul(x, x), FMul(y, y)))

\* roundedRectSDF
roundedRectSDF(x, y, w, h, radius) ==
    LET qx == FAdd(FSub(FAbs(x), w), radius)
        qy == FAdd(FSub(FAbs(y), h), radius)
    IN  FSub(FAdd(FMin(FMax(qx, qy), Zero), length(FMax(qx, Zero), FMax(qy, Zero))),
             radius)

\* sdfValue of pixel (x, y): roundedRectSDF as updateShader calls it.
SdfValue(x, y, in, hz) ==
    LET centeredX == FSub(FAdd(FromInt(x), Half), hz.halfW)
        centeredY == FSub(FAdd(FromInt(y), Half), hz.halfH)
    IN  roundedRectSDF(centeredX, centeredY,
                       FSub(hz.halfW, FMul(in.borderRadius, in.dpi)),
                       FSub(hz.halfH, FMul(in.borderRadius, in.dpi)),
                       FMul(in.borderRadius, in.dpi))

\* isInsideRoundedRect
IsInsideRoundedRect(x, y, in, hz) == FLt(SdfValue(x, y, in, hz), Zero)

\* The distance to the left edge alone.
SdfDistFromLeft(x, y, hz) == FAdd(FromInt(x), Half)

\* minEdgeDistance
SdfMinEdgeDistance(x, y, hz) ==
    LET pxX == FAdd(FromInt(x), Half)
        pxY == FAdd(FromInt(y), Half)
    IN  FMin(FMin(FMin(pxX, FSub(hz.containerW, pxX)), pxY), FSub(hz.containerH, pxY))

\* threshold of the SDF-gated variant
SdfThreshold(in) == FMax(FMul(in.edgeThicknessPx, in.dpi), One)

\* isInSwirlRegion of the SDF-gated variant: the statements of the
\* edge-distance variant.
SdfIsInSwirlRegion(x, y, in, hz) == IsInSwirlRegion(x, y, in, hz)

\* borderInfluence of the SDF-gated variant
SdfBorderInfluence(x, y, in, hz) ==
    IF SdfIsInSwirlRegion(x, y, in, hz) /\ IsInsideRoundedRect(x, y, in, hz)
    THEN smoothStep(SdfThreshold(in), Zero, SdfMinEdgeDistance(x, y, hz))
    ELSE Zero

\* displacementFactor of the SDF-gated variant
SdfDisplacementFactor(in, hz) ==
    LET minDimension == FromInt(IF hz.w < hz.h THEN hz.w ELSE hz.h)
        baseDisplacementFactor == FMul(FDiv(minDimension, Hundred), F0_05)
    IN  FMul(baseDisplacementFactor, FDiv(in.swirlIntensity, Ten))

\* The surfaces of the two variants, CSS pixels at a device pixel ratio.
SdfSurfaces == {<<300, 200, One>>, <<100, 100, One>>, <<128, 160, One>>, <<100, 100, Two>>}

SdfRadii == {Zero, FromInt(20)}

SdfThicknesses == {Two, FromInt(12), FromInt(40)}

SdfColumns(w) ==
    {x \in {0, 1, 5, 11, 12, 19, 20, 24, 39, 40, w \div 2, w - 12, w - 2, w - 1} :
        x >= 0 /\ x < w}

SdfRows(h) == {y \in {0, 1, 11, 12, 20, 40, h \div 2, h - 1} : y >= 0 /\ y < h}

SdfProbes ==
    UNION {{[kind |-> "sdf",
             in |-> [ProbeInputs(s, t, Zero, <<"str", "all">>) EXCEPT !.borderRadius = r],
             x |-> x, y |-> y, done |-> FALSE, influence |-> Zero, factor |-> Zero,
             sdfInfluence |-> Zero, sdfFactor |-> Zero, inside |-> FALSE] :
               x \in SdfColumns(DeviceSize(s[1], s[3])),
               y \in SdfRows(DeviceSize(s[2], s[3]))} :
           s \in SdfSurfaces, t \in SdfThicknesses, r \in SdfRadii}

InitSdf == Idle /\ probe \in SdfProbes

\* One turn of the pixel loop of each variant up to borderInfluence, and
\* the displacementFactor of each.
EvaluateVariants ==
    /\ probe.kind = "sdf"
    /\ ~probe.done
    /\ \E hz \in {Hoisted(probe.in)} :
          probe' = [probe EXCEPT
                       !.done = TRUE,
                       !.influence = BorderInfluence(probe.x, probe.y, probe.in, hz),
                       !.factor = hz.displacementFactor,
                       !.sdfInfluence = SdfBorderInfluence(probe.x, probe.y, probe.in, hz),
                       !.sdfFactor = SdfDisplacementFactor(probe.in, hz),
                       !.inside = IsInsideRoundedRect(probe.x, probe.y, probe.in, hz)]
    /\ UNCHANGED <<width, height, devicePixelRatio, canvasDPI, props, hasContext,
                   effectPending, canvas, href, scaleAttr, rawValues, lastMaxScale,
                   passes, rafId, rafEntry, lastSizeRef, events, observed, uncaught,
                   pointerVars, mouseVars, lifeVars, pendingFrames, snap>>

NextSdf == EvaluateVariants

SpecSdf == InitSdf /\ [][NextSdf]_vars

(***************************************************************************)
(* FloatingLiquidContainer: the props it passes to LiquidGlass.  <<>> is   *)
(* a prop that is not supplied.                                            *)
(***************************************************************************)

\* The defaults of the destructuring of FloatingLiquidContainer.
FloatingPresets ==
    [borderRadius |-> FromInt(28),
     swirlIntensity |-> FromInt(50),
     swirlScale |-> FromInt(100),
     swirlRadius |-> FromInt(20),
     edgeThicknessPx |-> FromInt(20)]

\* The props of the LiquidGlass element FloatingLiquidContainer returns, of
\* those that updateShader reads.
FloatingLiquidContainer(callerProps) ==
    [borderRadius |-> IF callerProps.borderRadius = <<>>
                      THEN FloatingPresets.borderRadius ELSE callerProps.borderRadius,
     swirlIntensity |-> IF callerProps.swirlIntensity = <<>>
                        THEN FloatingPresets.swirlIntensity ELSE callerProps.swirlIntensity,
     swirlScale |-> IF callerProps.swirlScale = <<>>
                    THEN FloatingPresets.swirlScale ELSE callerProps.swirlScale,
     swirlRadius |-> IF callerProps.swirlRadius = <<>>
                     THEN FloatingPresets.swirlRadius ELSE callerProps.swirlRadius,
     edgeThicknessPx |-> IF callerProps.edgeThicknessPx = <<>>
                         THEN FloatingPresets.edgeThicknessPx
                         ELSE callerProps.edgeThicknessPx,
     swirlEdges |-> <<>>]

\* The props a caller supplies.
CallerProps ==
    [borderRadius : {<<>>, FromInt(8)},
     swirlIntensity : {<<>>, FromInt(8)},
     swirlScale : {<<>>, One},
     swirlRadius : {<<>>, One},
     edgeThicknessPx : {<<>>, FromInt(12)},
     swirlEdges : {<<>>, <<"str", "all">>, <<"str", "top-left">>,
                   <<"arr", <<"top-left", "bottom-right">>>>}]

FloatingProbes ==
    {[kind |-> "floating", caller |-> c, done |-> FALSE, forwarded |-> c] :
        c \in CallerProps}

InitFloating == Idle /\ probe \in FloatingProbes

\* A render of FloatingLiquidContainer.
RenderFloating ==
    /\ probe.kind = "floating"
    /\ ~probe.done
    /\ probe' = [probe EXCEPT !.done = TRUE,
                              !.forwarded = FloatingLiquidContainer(probe.caller)]
    /\ UNCHANGED <<width, height, devicePixelRatio, canvasDPI, props, hasContext,
                   effectPending, canvas, href, scaleAttr, rawValues, lastMaxScale,
                   passes, rafId, rafEntry, lastSizeRef, events, observed, uncaught,
                   pointerVars, mouseVars, lifeVars, pendingFrames, snap>>

NextFloating == RenderFloating

SpecFloating == InitFloating /\ [][NextFloating]_vars

(***************************************************************************)
(* Properties.                                                             *)
(***************************************************************************)

\* The effect of the last render ran a pass to its end: there is a context
\* and no call threw.
PassDone == ~effectPending /\ hasContext /\ uncaught = "none"

\* The pixels of the surface of the last render, numbered from 0 row by row.
Pixels == 0..(DeviceSize(width, canvasDPI) * DeviceSize(height, canvasDPI) - 1)

PixelX(p) == p % DeviceSize(width, canvasDPI)

PixelY(p) == p \div DeviceSize(width, canvasDPI)

\* The map and the scale in the document are those of the pass out.
Shows(out) ==
    /\ href.set /\ href.width = out.w /\ href.height = out.h /\ href.data = out.data
    /\ scaleAttr.set /\ scaleAttr.value = out.filterScale

\* C1: after every synthesis pass the buffer has exactly w*h*4 bytes, for
\* w = max(1, floor(width*canvasDPI)) and h likewise, and every pixel has
\* blue 0, alpha 255 and red and green in 0..255.
C1_BufferShape ==
    PassDone =>
        /\ href.set
        /\ href.width = DeviceSize(width, canvasDPI)
        /\ href.height = DeviceSize(height, canvasDPI)
        /\ Len(href.data) = href.width * href.height * 4
        /\ Len(rawValues) = href.width * href.height * 2
        /\ \A p \in Pixels :
              /\ href.data[4 * p + 1] \in 0..255
              /\ href.data[4 * p + 2] \in 0..255
              /\ href.data[4 * p + 3] = 0
              /\ href.data[4 * p + 4] = 255

\* A second or later pass over a surface of several pixels, with a displaced pixel.
C1_Witness ==
    /\ PassDone
    /\ passes >= 2
    /\ href.width * href.height >= 12
    /\ \E p \in Pixels : href.data[4 * p + 1] \notin {127, 128}

\* C2: a pass whose inputs equal those of an earlier pass leaves the same map
\* and the same scale as that pass did, whatever passes ran in between.
C2_Deterministic ==
    (PassDone /\ snap.set /\ Inputs = snap.in) =>
        (href = snap.href /\ scaleAttr = snap.scale)

\* A pass repeats the inputs of an earlier one after a pass with other inputs.
C2_Witness ==
    /\ PassDone
    /\ snap.set
    /\ snap.between
    /\ Inputs = snap.in
    /\ passes >= 3

\* swirlEdges names some corners and not all of them.
SelectsSomeCorners(swirlEdges) ==
    IF swirlEdges[1] = "arr"
    THEN LET named == {swirlEdges[2][i] : i \in 1..Len(swirlEdges[2])}
         IN  named # {} /\ named \subseteq Corners /\ named # Corners
    ELSE swirlEdges[2] \in Corners

\* C5: when swirlEdges selects a proper subset of the corners, every pixel of
\* a quadrant that is not selected has borderInfluence 0, raw displacement
\* dx = dy = 0 and bytes R = G = 128.
C5_UnselectedQuadrantNeutral ==
    (PassDone /\ SelectsSomeCorners(props.swirlEdges)) =>
        \A p \in Pixels :
            ~IsInSwirlRegion(PixelX(p), PixelY(p), Inputs, Hoisted(Inputs)) =>
                /\ BorderInfluence(PixelX(p), PixelY(p), Inputs, Hoisted(Inputs)) = Zero
                /\ rawValues[2 * p + 1] = Zero
                /\ rawValues[2 * p + 2] = Zero
                /\ href.data[4 * p + 1] = 128
                /\ href.data[4 * p + 2] = 128

\* The pass of the last render is the pass of the inputs in.
SameAs(in) == \A out \in {Synthesis(in)} : Shows(out) /\ rawValues = out.rawValues

\* C7: a pass with swirlScale <= 0.1 (0 and negative values too) leaves what
\* the pass with swirlScale = 0.1 leaves, likewise for swirlRadius, and the
\* divisor made from swirlScale is never 0.
C7_ClampedScaleAndRadius ==
    PassDone =>
        /\ FLe(props.swirlScale, F0_1) => SameAs([Inputs EXCEPT !.swirlScale = F0_1])
        /\ FLe(props.swirlRadius, F0_1) => SameAs([Inputs EXCEPT !.swirlRadius = F0_1])
        /\ FLt(Zero, Hoisted(Inputs).swirlScaleClamped)
        /\ FLt(Zero, Hoisted(Inputs).swirlRadiusClamped)

\* A pass with a negative swirlScale over several pixels, some of them displaced.
C7_Witness ==
    /\ PassDone
    /\ FLt(props.swirlScale, Zero)
    /\ FLt(props.swirlRadius, Zero)
    /\ href.width * href.height >= 12
    /\ \E p \in Pixels : href.data[4 * p + 1] \notin {127, 128}

\* C8: when width * canvasDPI or height * canvasDPI is below 1, so that the
\* surface has no whole device pixel, updateShader writes neither the canvas
\* nor the href nor the scale attribute.
C8_EmptySurfaceNoOp ==
    [][(/\ UpdateShader
        /\ \/ FFloor(FMul(FromInt(width), canvasDPI)) <= 0
           \/ FFloor(FMul(FromInt(height), canvasDPI)) <= 0)
       => UNCHANGED <<canvas, href, scaleAttr>>]_vars

\* C9: the pass with swirlEdges = [] leaves the map and the scale that the
\* pass with swirlEdges = 'all' leaves.
C9_EmptySelectionIsAll ==
    (PassDone /\ props.swirlEdges = <<"arr", <<>>>>) =>
        SameAs([Inputs EXCEPT !.swirlEdges = <<"str", "all">>])

\* The offset feDisplacementMap reads from one byte: scale * (C/255 - 0.5).
Decode(channel, filterScale) ==
    FMul(filterScale, FSub(FDiv(FromInt(channel), F255), Half))

\* The byte of element k of rawValues.
ByteOf(k) == href.data[4 * ((k - 1) \div 2) + 1 + ((k - 1) % 2)]

\* C10: for every displacement that the encoder did not clamp, the offset
\* decoded from its byte is the raw displacement divided by the pixel
\* density, to within the quantization step scale / 255.
C10_RoundTrip ==
    PassDone =>
        \A k \in 1..Len(rawValues) :
            FLe(FAbs(FMul(rawValues[k], ScaleInv(lastMaxScale))), One) =>
                FLe(FAbs(FSub(Decode(ByteOf(k), scaleAttr.value),
                              FDiv(rawValues[k], canvasDPI))),
                    FDiv(scaleAttr.value, F255))

\* The largest number below 1.
BelowOne == <<2^DoubleBits - 1, 0 - DoubleBits>>

ProbeW == DeviceSize(probe.in.width, probe.in.dpi)

ProbeH == DeviceSize(probe.in.height, probe.in.dpi)

ProbeMin == IF ProbeW < ProbeH THEN ProbeW ELSE ProbeH

\* The least of the four distances of the centre of the probed pixel to the edges.
ProbeEdgeDistance ==
    LET pxX == FAdd(FromInt(probe.x), Half)
        pxY == FAdd(FromInt(probe.y), Half)
    IN  FMin(FMin(pxX, FSub(FromInt(ProbeW), pxX)),
             FMin(pxY, FSub(FromInt(ProbeH), pxY)))

\* C4: with swirlOffset = 0 and swirlEdges = 'all' the influence of a pixel
\* is in [0, 1]; the falloff of an edge is 1 at distance 0 and 0 at a distance
\* of minThreshold or more; a pixel at least minThreshold from all four edges
\* has borderInfluence 0.
C4_InfluenceRange ==
    (/\ probe.kind = "pixel" /\ probe.done
     /\ probe.in.swirlOffset = Zero /\ probe.in.swirlEdges = <<"str", "all">>) =>
        /\ FLe(Zero, probe.influence) /\ FLe(probe.influence, One)
        /\ FLe(Zero, probe.falloff) /\ FLe(probe.falloff, One)
        /\ probe.distance = Zero => probe.falloff = One
        /\ FLe(probe.minThreshold, probe.distance) => probe.falloff = Zero
        /\ FLe(probe.minThreshold, ProbeEdgeDistance) => probe.influence = Zero

\* The centre pixel of a 300 by 200 surface, and the falloff at distance 0.
C4_Witness ==
    /\ probe.kind = "pixel" /\ probe.done
    /\ probe.in.swirlOffset = Zero /\ probe.in.swirlEdges = <<"str", "all">>
    /\ ProbeW = 300 /\ ProbeH = 200 /\ probe.x = 150 /\ probe.y = 100
    /\ FLe(probe.minThreshold, ProbeEdgeDistance)
    /\ probe.influence = Zero
    /\ probe.distance = Zero
    /\ probe.falloff = One

\* C6: on a surface with 4 <= min(W, H) < 100 the threshold in use is
\* min(W, H) / 2 whatever edgeThicknessPx is, and on a 50 by 50 surface the
\* falloff at distance 20, and the influence of a pixel 20 from an edge, are
\* above 0.
C6_SmallSurfaceThreshold ==
    (probe.kind = "pixel" /\ probe.done /\ ProbeMin >= 4 /\ ProbeMin < 100) =>
        /\ probe.minThreshold = FDiv(FromInt(ProbeMin), Two)
        /\ (ProbeW = 50 /\ ProbeH = 50 /\ probe.distance = FromInt(20)) =>
               FLt(Zero, probe.falloff)
        /\ (/\ ProbeW = 50 /\ ProbeH = 50
            /\ probe.in.swirlOffset = Zero /\ probe.in.swirlEdges = <<"str", "all">>
            /\ probe.x \in {19, 20}) =>
               FLt(Zero, probe.influence)

\* The 50 by 50 surface with edgeThicknessPx = 12: threshold 25, distance 20.
C6_Witness ==
    /\ probe.kind = "pixel" /\ probe.done
    /\ ProbeW = 50 /\ ProbeH = 50
    /\ probe.in.edgeThicknessPx = FromInt(12)
    /\ probe.in.swirlOffset = Zero /\ probe.in.swirlEdges = <<"str", "all">>
    /\ probe.minThreshold = FromInt(25)
    /\ probe.distance = FromInt(20)
    /\ probe.x = 20 /\ probe.y = 24
    /\ FLt(Zero, probe.falloff)
    /\ FLt(Zero, probe.influence)

\* C11: a render in which width, height, the pixel density or a prop of the
\* swirl differs from the previous render is followed by a pass with the new
\* values: once the effect of the last render has run, the href and the scale
\* attribute are those of the pass of the inputs of that render.
C11_OutputFollowsRender == PassDone => SameAs(Inputs)

\* The passes of a render with other props and of a render at another size ran.
C11_Witness ==
    /\ PassDone
    /\ passes >= 3
    /\ props # DefaultProps
    /\ width # InitialWidth
    /\ Shows(Synthesis(Inputs))

\* C12: when the effect of a render runs with inputs value-equal to those of
\* the pass whose output the document shows, no new pass runs.
C12_NoRedundantPass ==
    [][(/\ UpdateShader
        /\ hasContext
        /\ snap.set /\ ~snap.between /\ snap.in = Inputs)
       => passes' = passes]_vars

ProbeOffsetDistance ==
    FMul(probe.in.swirlOffset,
         FMin(FDiv(FromInt(ProbeW), Two), FDiv(FromInt(ProbeH), Two)))

\* C14: with swirlOffset > 0, a pixel whose centre is nearer than
\* offsetDistance to its nearest edge has influence 0.
C14_GapHasNoSwirl ==
    (/\ probe.kind = "pixel" /\ probe.done
     /\ FLt(Zero, probe.in.swirlOffset)
     /\ FLt(ProbeEdgeDistance, ProbeOffsetDistance)) =>
        probe.influence = Zero

\* C15: when new ImageData, putImageData or toDataURL throws during a pass,
\* the exception does not leave updateShader: no call of it throws into the
\* effect.
C15_NoExceptionLeaves == uncaught = "none"

\* C16: onPressStateChange is called only when isPressed changes: the first
\* call is not with false, and no call repeats the argument of the call
\* before it.
C16_CalledOnChangeOnly ==
    \A i \in 1..Len(pressStateCalls) :
        pressStateCalls[i] # (IF i = 1 THEN FALSE ELSE pressStateCalls[i - 1])

\* C17: with enableMorphicTransitions and no isExpanded prop, a click toggles
\* the expanded state, and with it the dimensions of the container.
C17_ClickToggles ==
    [][(HandleClick /\ props.enableMorphicTransitions /\ props.isExpanded = <<>>)
       => (IsExpanded' # IsExpanded /\ MorphicDimensions' # MorphicDimensions)]_vars

\* C18: in a pass every R and G byte is the encoding of its raw value with
\* the one maxScale that is the floored maximum over the whole field, and
\* filterScale is derived from that same maxScale.
C18_OneFinalMaxScale ==
    PassDone =>
        /\ lastMaxScale = ScaleFloor(RawMax(RawField(Inputs, Hoisted(Inputs))))
        /\ \A p \in Pixels :
              /\ href.data[4 * p + 1] =
                     EncodeChannel(rawValues[2 * p + 1], ScaleInv(lastMaxScale))
              /\ href.data[4 * p + 2] =
                     EncodeChannel(rawValues[2 * p + 2], ScaleInv(lastMaxScale))
        /\ scaleAttr.value = FilterScale(lastMaxScale, canvasDPI)

\* A pass whose maxScale is above its floor and above what the first pixel
\* alone would give, and whose first byte differs from the byte that scale
\* would give.
C18_Witness ==
    /\ PassDone
    /\ passes >= 1
    /\ FLt(One, lastMaxScale)
    /\ FLt(ScaleFloor(RunningMax(rawValues, 2)), lastMaxScale)
    /\ href.data[1] #
           EncodeChannel(rawValues[1], ScaleInv(ScaleFloor(RunningMax(rawValues, 2))))

\* maxPossibleDistance on the surface of the probe: min(W, H) / 2.
ProbeMaxDistance == FDiv(FromInt(ProbeMin), Two)

CornerSet(swirlEdges) ==
    IF swirlEdges[1] = "arr"
    THEN {swirlEdges[2][i] : i \in 1..Len(swirlEdges[2])}
    ELSE IF swirlEdges[2] = "all" THEN Corners
    ELSE {swirlEdges[2]}

\* The corners whose region holds pixel (x, y) of the surface of the last render.
CornersOf(x, y) ==
    {c \in Corners :
        IsInSwirlRegion(x, y, [Inputs EXCEPT !.swirlEdges = <<"str", c>>],
                        Hoisted([Inputs EXCEPT !.swirlEdges = <<"str", c>>]))}

\* C20: a pass leaves what the pass of any other value of swirlEdges that
\* denotes the same set of corners leaves (a corner and the array of it, the
\* same corners in another order or repeated, all four corners and 'all');
\* every pixel is in the region of exactly one corner, and a pixel whose
\* centre is on a centre line is in a right or bottom region.
C20_RegionIsASetOfCorners ==
    PassDone =>
        /\ \A e \in MountEdges \cup MountEdgeForms :
              (e # props.swirlEdges /\ CornerSet(e) = CornerSet(props.swirlEdges)) =>
                  SameAs([Inputs EXCEPT !.swirlEdges = e])
        /\ \A p \in Pixels :
              /\ Cardinality(CornersOf(PixelX(p), PixelY(p))) = 1
              /\ 2 * PixelX(p) + 1 = DeviceSize(width, canvasDPI) =>
                     CornersOf(PixelX(p), PixelY(p)) \subseteq
                         {"top-right", "bottom-right"}
              /\ 2 * PixelY(p) + 1 = DeviceSize(height, canvasDPI) =>
                     CornersOf(PixelX(p), PixelY(p)) \subseteq
                         {"bottom-left", "bottom-right"}

\* A pass of two corners written in an order that another value of the mount
\* set reverses, on a surface with a pixel on each centre line and a displaced
\* pixel.
C20_Witness ==
    /\ PassDone
    /\ props.swirlEdges = <<"arr", <<"top-right", "bottom-right">>>>
    /\ DeviceSize(width, canvasDPI) = 5
    /\ DeviceSize(height, canvasDPI) = 3
    /\ \E p \in Pixels : href.data[4 * p + 1] \notin {127, 128}
    /\ \E p \in Pixels : href.data[4 * p + 1] \in {127, 128}

(***************************************************************************)
(* The control panel, the tracking and the unmount.                        *)
(***************************************************************************)

\* C21: in the demo control panel, starting from 'all', after any sequence
\* of changes of the 'All Edges' checkbox and of the per-corner checkboxes
\* swirlEdges is 'all' or a non-empty array of distinct corners, never the
\* empty array.
C21_NeverEmptySelection ==
    \/ props.swirlEdges = <<"str", "all">>
    \/ /\ props.swirlEdges[1] = "arr"
       /\ Len(props.swirlEdges[2]) >= 1
       /\ \A i \in 1..Len(props.swirlEdges[2]) :
             /\ \E k \in 1..Len(PanelCorners) : props.swirlEdges[2][i] = PanelCorners[k]
             /\ \A j \in 1..Len(props.swirlEdges[2]) :
                   props.swirlEdges[2][i] = props.swirlEdges[2][j] => i = j

C23_NullAfterLeave == ~pointerInside => internalGlobalMousePos = <<>>

\* C24: after the unmount no frame callback of the resize effect or of the
\* mouse tracking is pending, the ResizeObserver is disconnected and the
\* mouse listeners are removed, so nothing of the component executes: every
\* step of a behaviour starts in a state in which it is mounted.
C24_QuietAfterUnmount ==
    /\ [](~mounted => /\ pendingFrames.resize = 0
                      /\ pendingFrames.mouse = 0
                      /\ ~observing
                      /\ ~listening)
    /\ [][mounted]_vars

\* The component unmounted while a frame callback of the mouse tracking or
\* of the resize effect was pending.
C24_Witness ==
    /\ ~mounted
    /\ events = 2
    /\ rafId
    /\ mouseEntry # <<0, 0>>
    /\ internalGlobalMousePos = <<>>

\* The device pixel ratios of 1 and more.
DensePixelRatios == {One, Lit(5, 4), Lit(3, 2), Two, Three}

\* C25: the tracked width and height are at least 100 in every reachable
\* state, so the surface of a pass has min(w, h) >= floor(100 * canvasDPI),
\* at the ratio of the state and at every other one; with canvasDPI >= 1
\* the branches of the threshold for surfaces below 60 and below 100 device
\* pixels are not taken.
C25_TrackedSizeFloor ==
    /\ width >= MinTrackedSize
    /\ height >= MinTrackedSize
    /\ (PassDone /\ mounted) =>
          /\ href.width = DeviceSize(width, canvasDPI)
          /\ href.height = DeviceSize(height, canvasDPI)
    /\ \A r \in PixelRatios \cup DensePixelRatios :
          \A hz \in {Hoisted(RenderInputs(width, height, r, props))} :
              /\ hz.w >= FFloor(FMul(FromInt(MinTrackedSize), r))
              /\ hz.h >= FFloor(FMul(FromInt(MinTrackedSize), r))
              /\ FLe(One, r) =>
                    /\ ~FLt(FromInt(IF hz.w < hz.h THEN hz.w ELSE hz.h), Hundred)
                    /\ hz.threshold =
                          ThresholdOfLarge(hz.w, hz.h, r, props.edgeThicknessPx)

\* The container shrank below 100 pixels: the tracked size is 100 by 100 and
\* the pass of that size has run.
C25_Witness ==
    /\ width = MinTrackedSize
    /\ height = MinTrackedSize
    /\ observed = <<0, 0>>
    /\ PassDone
    /\ passes = 2

\* C26: whenever getComponentBounds returns bounds, fadeInFactor is a number
\* in [0, 1], for every elasticityActivationZone >= 0 and every mouse
\* position, a zone of 0 with the mouse over the component included; when
\* the mouse is farther than the zone from the edges the result is null and
\* the translation is zero.
C26_FadeInFactorInRange ==
    (probe.kind = "bounds" /\ probe.done) =>
        /\ ~probe.bounds.null =>
              /\ probe.bounds.fadeInFactor # NaN
              /\ FLe(Zero, probe.bounds.fadeInFactor)
              /\ FLe(probe.bounds.fadeInFactor, One)
        /\ probe.bounds.null = FLt(probe.zone, probe.bounds.edgeDistance)
        /\ probe.bounds.null => probe.translation = <<Zero, Zero>>

\* C27: for borderRadius 0, swirlOffset 0, a device pixel ratio of 1, the
\* region 'all', min(W, H) >= 100 and 2 <= edgeThicknessPx <= 0.4 * min(W, H)
\* the SDF-gated variant and the edge-distance variant compute the same
\* borderInfluence and the same displacementFactor for every pixel.
C27_VariantsAgree ==
    (/\ probe.kind = "sdf"
     /\ probe.done
     /\ probe.in.borderRadius = Zero
     /\ probe.in.dpi = One
     /\ FLe(probe.in.edgeThicknessPx, FMul(FromInt(ProbeMin), F0_4))) =>
        /\ probe.sdfInfluence = probe.influence
        /\ probe.sdfFactor = probe.factor

\* A pixel inside the band of two edges, where the four smoothsteps of the
\* edge-distance variant differ and the influence is strictly between 0 and 1.
C27_Witness ==
    /\ probe.kind = "sdf"
    /\ probe.done
    /\ probe.in.borderRadius = Zero
    /\ probe.in.dpi = One
    /\ probe.in.edgeThicknessPx = FromInt(40)
    /\ probe.x = 5
    /\ probe.y = 11
    /\ FLt(Zero, probe.influence)
    /\ FLt(probe.influence, One)
    /\ probe.sdfInfluence = probe.influence

\* C28: in the SDF-gated variant every pixel inside the rounded rectangle of
\* the component and inside the edge band (minimum edge distance below
\* max(edgeThicknessPx, 1)) has borderInfluence > 0; with the default
\* borderRadius 20 and edgeThicknessPx 12 the edge band is swirled.
C28_BandIsSwirled ==
    (/\ probe.kind = "sdf"
     /\ probe.done
     /\ \A hz \in {Hoisted(probe.in)} :
           /\ FLt(roundedRectSDF(FSub(FAdd(FromInt(probe.x), Half), hz.halfW),
                                 FSub(FAdd(FromInt(probe.y), Half), hz.halfH),
                                 hz.halfW, hz.halfH,
                                 FMul(probe.in.borderRadius, probe.in.dpi)),
                  Zero)
           /\ FLt(SdfMinEdgeDistance(probe.x, probe.y, hz), SdfThreshold(probe.in))) =>
        FLt(Zero, probe.sdfInfluence)

\* C29: FloatingLiquidContainer passes every prop its caller supplies to
\* LiquidGlass unchanged and puts its preset default only in the place of a
\* prop that is not supplied; a supplied swirlEdges reaches LiquidGlass.
C29_ForwardsEveryProp ==
    (probe.kind = "floating" /\ probe.done) =>
        \A name \in DOMAIN probe.caller :
            /\ probe.caller[name] # <<>> => probe.forwarded[name] = probe.caller[name]
            /\ (probe.caller[name] = <<>> /\ name \in DOMAIN FloatingPresets) =>
                  probe.forwarded[name] = FloatingPresets[name]

\* The largest absolute value of rawValues.
Peak == RunningMax(rawValues, Len(rawValues))

====
